---------------------------- MODULE Spec2Model ----------------------------
(***************************************************************************)
(* A model of falcon's directed graph (src/falcon/graph.rs), its dominator *)
(* engine, and the control flow graph built on it                          *)
(* (src/lib/il/control_flow_graph.rs).                                     *)
(*                                                                         *)
(* Option<T> is modelled as a sequence of length at most one, a HashMap as *)
(* a function whose domain is the key set, a Vec/VecDeque as a sequence    *)
(* and a BTreeSet as a set (iterated in ascending order where the order    *)
(* is observable).  A Result is a record [g, res] whose res is "Ok",       *)
(* "Err" or "Panic" (an unwrap() of None aborts the program).              *)
(***************************************************************************)
EXTENDS Integers, Sequences, FiniteSets, TLC

VARIABLES
    graph,      \* the Graph<V,E> under operation
    last,       \* the last operation called on it and what it returned
    start,      \* start_index handed to the last analysis
    analysis,   \* what the last analysis returned
    cfg,        \* the ControlFlowGraph under operation
    defuse      \* the inputs and results of def_use and use_def

vars == <<graph, last, start, analysis, cfg, defuse>>

---------------------------------------------------------------------------
(* Bounds *)

\* vertex indices used by the Graph operations are 0..MaxIndex
MaxIndex == 1
\* insert_edge is not called once the graph holds this many edges
MaxEdges == 3
\* the analyses run on graphs with the vertices 0..NumVertices-1
NumVertices == 3
\* and at most this many edges
MaxDomEdges == 3
\* compute_dominators is also run on graphs with the vertices
\* 0..LargeVertices-1 and at most LargeEdges edges
LargeVertices == 5
LargeEdges == 6
\* new_block is not called once next_index has reached MaxBlocks
MaxBlocks == 2
\* no edge is added to a ControlFlowGraph that holds this many edges
MaxCfgEdges == 2
\* no instruction is pushed once the blocks hold this many instructions
MaxInstructions == 2
\* append and insert do not take next_index beyond MaxComposed
MaxComposed == 3
\* a ControlFlowGraph handed to append or insert has at most this many blocks
MaxOtherBlocks == 1
\* and at most this many edges
MaxOtherEdges == 1
\* a ControlFlowGraph imported block by block has at most this many blocks
MaxImportBlocks == 2
\* and at most this many edges
MaxImportEdges == 1
\* and no import takes next_index beyond MaxImported
MaxImported == 3
\* def_use and use_def: the Instruction locations are 1..NumInstructionLocations
NumInstructionLocations == 1
\* and no more than MaxReaching definitions reach one location
MaxReaching == 1

Indices == 0..MaxIndex

---------------------------------------------------------------------------
(* Option, HashMap and Vec helpers *)

None == <<>>
Some(x) == <<x>>

MapPut(m, k, v) == [x \in (DOMAIN m) \cup {k} |-> IF x = k THEN v ELSE m[x]]
MapDel(m, k) == [x \in (DOMAIN m) \ {k} |-> m[x]]

\* a removal that drops the first element whatever the index
RemoveAtFirst(s, i) == Tail(s)

\* Vec::remove(i), 1-based
RemoveAt(s, i) == [j \in 1..(Len(s) - 1) |-> IF j < i THEN s[j] ELSE s[j + 1]]

\* the loop of remove_edge that looks for the first edge with these endpoints;
\* 0 stands for "index stays None"
FirstIndex(s, h, t) ==
    LET hits == {i \in 1..Len(s) : s[i].head = h /\ s[i].tail = t}
    IN  IF hits = {} THEN 0 ELSE CHOOSE i \in hits : \A j \in hits : i <= j

Ok(g) == [g |-> g, res |-> "Ok"]
Err(g) == [g |-> g, res |-> "Err"]
Panic(g) == [g |-> g, res |-> "Panic"]

---------------------------------------------------------------------------
(* Graph<V,E> *)

NullVertex(i) == [index |-> i]
NullEdge(h, t) == [head |-> h, tail |-> t]

new ==
    [head |-> None, vertices |-> <<>>, edges |-> <<>>,
     edges_out |-> <<>>, edges_in |-> <<>>]

has_vertex(g, index) == index \in DOMAIN g.vertices

set_head(g, index) ==
    IF ~ has_vertex(g, index) THEN Err(g)
    ELSE Ok([g EXCEPT !.head = Some(index)])

remove_edge(g, h, t) ==
    IF <<h, t>> \notin DOMAIN g.edges THEN Err(g)
    ELSE
    LET g1 == [g EXCEPT !.edges = MapDel(@, <<h, t>>)] IN
    IF h \notin DOMAIN g1.edges_out THEN Panic(g1)
    ELSE
    LET i == FirstIndex(g1.edges_out[h], h, t) IN
    IF i = 0 THEN Panic(g1)
    ELSE
    LET g2 == [g1 EXCEPT !.edges_out = MapPut(@, h, RemoveAt(@[h], i))] IN
    IF t \notin DOMAIN g2.edges_in THEN Panic(g2)
    ELSE
    LET j == FirstIndex(g2.edges_in[t], h, t) IN
    IF j = 0 THEN Panic(g2)
    ELSE Ok([g2 EXCEPT !.edges_in = MapPut(@, t, RemoveAt(@[t], j))])

\* the (head, tail) pairs remove_vertex collects before it removes anything
IncidentPairs(g, index) ==
    LET outs == IF index \in DOMAIN g.edges_out THEN g.edges_out[index] ELSE <<>>
        ins  == IF index \in DOMAIN g.edges_in THEN g.edges_in[index] ELSE <<>>
        all  == outs \o ins
    IN  [k \in 1..Len(all) |-> <<all[k].head, all[k].tail>>]

\* "for edge in edges { self.remove_edge(edge.0, edge.1)?; }"
RECURSIVE RemoveEdges(_, _)
RemoveEdges(g, pairs) ==
    IF pairs = <<>> THEN Ok(g)
    ELSE LET r == remove_edge(g, pairs[1][1], pairs[1][2])
         IN  IF r.res = "Ok" THEN RemoveEdges(r.g, Tail(pairs)) ELSE r

remove_vertex(g, index) ==
    IF ~ has_vertex(g, index) THEN Err(g)
    ELSE
    LET g1 == [g EXCEPT !.vertices = MapDel(@, index)]
        r  == RemoveEdges(g1, IncidentPairs(g1, index))
    IN  IF r.res # "Ok" THEN r
        ELSE Ok([r.g EXCEPT !.edges_in = MapDel(@, index),
                            !.edges_out = MapDel(@, index)])

insert_vertex(g, v) ==
    IF v.index \in DOMAIN g.vertices THEN Err(g)
    ELSE Ok([g EXCEPT !.vertices = MapPut(@, v.index, v),
                      !.edges_out = MapPut(@, v.index, <<>>),
                      !.edges_in = MapPut(@, v.index, <<>>)])

\* an insert_edge that accepts an edge whose endpoints are already joined
insert_edge_overwriting(g, edge) ==
    Ok([g EXCEPT
            !.edges = MapPut(@, <<edge.head, edge.tail>>, edge),
            !.edges_out = IF edge.head \in DOMAIN @
                          THEN MapPut(@, edge.head, Append(@[edge.head], edge))
                          ELSE @,
            !.edges_in = IF edge.tail \in DOMAIN @
                         THEN MapPut(@, edge.tail, Append(@[edge.tail], edge))
                         ELSE @])

insert_edge(g, edge) ==
    IF <<edge.head, edge.tail>> \in DOMAIN g.edges THEN Err(g)
    ELSE Ok([g EXCEPT
            !.edges = MapPut(@, <<edge.head, edge.tail>>, edge),
            !.edges_out = IF edge.head \in DOMAIN @
                          THEN MapPut(@, edge.head, Append(@[edge.head], edge))
                          ELSE @,
            !.edges_in = IF edge.tail \in DOMAIN @
                         THEN MapPut(@, edge.tail, Append(@[edge.tail], edge))
                         ELSE @])

\* "self.edges_out.get(&index).ok_or(..)", as [res, val]
Graph_edges_out(g, index) ==
    IF index \in DOMAIN g.edges_out
    THEN [res |-> "Ok", val |-> g.edges_out[index]]
    ELSE [res |-> "Err", val |-> <<>>]

Graph_edges_in(g, index) ==
    IF index \in DOMAIN g.edges_in
    THEN [res |-> "Ok", val |-> g.edges_in[index]]
    ELSE [res |-> "Err", val |-> <<>>]

\* successors and predecessors: the vertices at the far ends of the edges of
\* an adjacency sequence, each unwrapped
Neighbours(g, index, adjacency, ends) ==
    IF index \notin DOMAIN g.vertices THEN [res |-> "Err", val |-> <<>>]
    ELSE IF index \notin DOMAIN adjacency THEN [res |-> "Panic", val |-> <<>>]
    ELSE IF \E n \in 1..Len(adjacency[index]) : ends[n] \notin DOMAIN g.vertices
    THEN [res |-> "Panic", val |-> <<>>]
    ELSE [res |-> "Ok",
          val |-> [n \in 1..Len(adjacency[index]) |-> g.vertices[ends[n]]]]

Graph_successors(g, index) ==
    Neighbours(g, index, g.edges_out,
               [n \in 1..Len(g.edges_out[index]) |-> g.edges_out[index][n].tail])

Graph_predecessors(g, index) ==
    Neighbours(g, index, g.edges_in,
               [n \in 1..Len(g.edges_in[index]) |-> g.edges_in[index][n].head])

---------------------------------------------------------------------------
(* Dominator engine.  An analysis returns [res, val]: val is the returned  *)
(* map or graph when res = "Ok".                                           *)

Return(v) == [res |-> "Ok", val |-> v]
Fail(kind) == [res |-> kind, val |-> <<>>]

\* the elements of a BTreeSet in iteration (ascending) order
RECURSIVE Ascending(_)
Ascending(S) ==
    IF S = {} THEN <<>>
    ELSE LET m == CHOOSE x \in S : \A y \in S : x <= y
         IN  <<m>> \o Ascending(S \ {m})

Reverse(s) == [n \in 1..Len(s) |-> s[Len(s) + 1 - n]]

\* every order in which a HashMap may present the keys K
AllOrders(K) ==
    {o \in [1..Cardinality(K) -> K] : \A i, j \in 1..Cardinality(K) : i # j => o[i] # o[j]}

\* the two orders tried where an analysis calls compute_predecessors itself
HashOrders(K) == {Ascending(K), Reverse(Ascending(K))}

Heads(es) == {es[n].head : n \in 1..Len(es)}
Tails(es) == [n \in 1..Len(es) |-> es[n].tail]
Contains(q, x) == \E n \in 1..Len(q) : q[n] = x

\* an initial population that makes every vertex its own predecessor
InitialPredecessorsWithSelf(g) ==
    [v \in DOMAIN g.vertices |-> Heads(g.edges_in[v]) \cup {v}]

\* compute_predecessors, "initial population": the heads of edges_in
InitialPredecessors(g) ==
    [v \in DOMAIN g.vertices |-> Heads(g.edges_in[v])]

\* compute_predecessors, "for every vertex": the work queue loop
RECURSIVE PredecessorsLoop(_, _, _)
PredecessorsLoop(g, predecessors, queue) ==
    IF queue = <<>> THEN Return(predecessors)
    ELSE
    LET vertex_index == Head(queue)
        this == predecessors[vertex_index]
    IN  IF \E p \in this : p \notin DOMAIN predecessors THEN Fail("Panic")
        ELSE
        LET to_add == (UNION {predecessors[p] : p \in this}) \ this
            grown == [predecessors EXCEPT ![vertex_index] = this \cup to_add]
        IN  IF to_add = {} THEN PredecessorsLoop(g, grown, Tail(queue))
            ELSE IF vertex_index \notin DOMAIN g.edges_out THEN Fail("Err")
            ELSE PredecessorsLoop(g, grown,
                                  Tail(queue) \o Tails(g.edges_out[vertex_index]))

\* compute_predecessors with the loop left out: immediate predecessors only
compute_predecessors_immediate(g, order) ==
    IF \E v \in DOMAIN g.vertices : v \notin DOMAIN g.edges_in THEN Fail("Err")
    ELSE Return(InitialPredecessors(g))

\* order: the order in which self.vertices is iterated
compute_predecessors(g, order) ==
    IF \E v \in DOMAIN g.vertices : v \notin DOMAIN g.edges_in THEN Fail("Err")
    ELSE PredecessorsLoop(g, InitialPredecessors(g), order)

\* compute_acyclic: one NullVertex per vertex of the original
RECURSIVE NullVertices(_, _)
NullVertices(dag, order) ==
    IF order = <<>> THEN dag
    ELSE NullVertices(insert_vertex(dag, NullVertex(Head(order))).g, Tail(order))

\* a test that skips every edge to a visited vertex
SkipEdgeToVisited(visited, vertex_predecessors, tail) ==
    tail \in visited

\* compute_acyclic: "skip edges that would create a loop"
SkipEdge(visited, vertex_predecessors, tail) ==
    tail \in visited /\ tail \in vertex_predecessors

\* compute_acyclic: the loop over the outgoing edges of the popped vertex;
\* st = [res, dag, queue]
RECURSIVE AcyclicEdges(_, _, _, _)
AcyclicEdges(st, visited, vertex_predecessors, es) ==
    IF es = <<>> \/ st.res # "Ok" THEN st
    ELSE
    LET edge == Head(es) IN
    IF SkipEdge(visited, vertex_predecessors, edge.tail)
    THEN AcyclicEdges(st, visited, vertex_predecessors, Tail(es))
    ELSE
    LET queue == IF edge.tail \notin visited /\ ~ Contains(st.queue, edge.tail)
                 THEN Append(st.queue, edge.tail) ELSE st.queue
        r == insert_edge(st.dag, NullEdge(edge.head, edge.tail))
    IN  AcyclicEdges([res |-> r.res, dag |-> r.g, queue |-> queue],
                     visited, vertex_predecessors, Tail(es))

\* compute_acyclic: the breadth-first loop
RECURSIVE AcyclicLoop(_, _, _, _, _)
AcyclicLoop(g, predecessors, dag, visited, queue) ==
    IF queue = <<>> THEN Return(dag)
    ELSE
    LET vertex_index == Head(queue)
        seen == visited \cup {vertex_index}
    IN  IF vertex_index \notin DOMAIN predecessors
           \/ vertex_index \notin DOMAIN g.edges_out THEN Fail("Panic")
        ELSE
        LET st == AcyclicEdges([res |-> "Ok", dag |-> dag, queue |-> Tail(queue)],
                               seen, predecessors[vertex_index],
                               g.edges_out[vertex_index])
        IN  IF st.res # "Ok" THEN Fail(st.res)
            ELSE AcyclicLoop(g, predecessors, st.dag, seen, st.queue)

compute_acyclic(g, start_index, order) ==
    LET predecessors == compute_predecessors(g, order) IN
    IF predecessors.res # "Ok" THEN Fail(predecessors.res)
    ELSE AcyclicLoop(g, predecessors.val, NullVertices(new, order), {}, <<start_index>>)

\* compute_dominators: "are dominators for all predecessors of this block
\* already set?"; appends the unset ones that are not queued yet
RECURSIVE EnqueueUnset(_, _, _)
EnqueueUnset(dominators, queue, ps) ==
    IF ps = <<>> THEN queue
    ELSE EnqueueUnset(dominators,
                      IF Head(ps) \notin DOMAIN dominators /\ ~ Contains(queue, Head(ps))
                      THEN Append(queue, Head(ps)) ELSE queue,
                      Tail(ps))

\* compute_dominators: "add successors to the queue"
RECURSIVE EnqueueNew(_, _)
EnqueueNew(queue, ts) ==
    IF ts = <<>> THEN queue
    ELSE EnqueueNew(IF Contains(queue, Head(ts)) THEN queue ELSE Append(queue, Head(ts)),
                    Tail(ts))

\* compute_dominators: doms = doms & dominators[edge.head()] for the incoming
\* edges of the original graph whose head is a predecessor in the DAG
RECURSIVE Intersect(_, _, _, _)
Intersect(doms, dominators, vertex_predecessors, es) ==
    IF es = <<>> THEN doms
    ELSE Intersect(IF Head(es).head \in vertex_predecessors
                   THEN doms \cap dominators[Head(es).head] ELSE doms,
                   dominators, vertex_predecessors, Tail(es))

\* NewDominators without "doms.insert(vertex_index)"
NewDominatorsWithoutSelf(g, dag, dominators, vertex_predecessors, vertex_index) ==
    LET first == dag.edges_in[vertex_index]
        seed == IF first = <<>> THEN {} ELSE dominators[first[1].head]
    IN  Intersect(seed, dominators, vertex_predecessors, g.edges_in[vertex_index])

\* compute_dominators: the dominators of a vertex all of whose predecessors
\* are set
NewDominators(g, dag, dominators, vertex_predecessors, vertex_index) ==
    LET first == dag.edges_in[vertex_index]
        seed == IF first = <<>> THEN {} ELSE dominators[first[1].head]
    IN  Intersect(seed, dominators, vertex_predecessors, g.edges_in[vertex_index])
        \cup {vertex_index}

\* compute_dominators: the work queue loop.  seen holds the loop states
\* passed so far: the loop is deterministic, so it runs forever exactly when
\* a state comes back ("Diverge")
RECURSIVE DominatorsLoop(_, _, _, _, _, _)
DominatorsLoop(g, dag, predecessors, dominators, queue, seen) ==
    IF queue = <<>> THEN Return(dominators)
    ELSE IF <<dominators, queue>> \in seen THEN Fail("Diverge")
    ELSE
    LET vertex_index == Head(queue)
        rest == Tail(queue)
        seen1 == seen \cup {<<dominators, queue>>}
    IN  IF vertex_index \notin DOMAIN predecessors THEN Fail("Panic")
        ELSE IF \E p \in predecessors[vertex_index] : p \notin DOMAIN dominators
        THEN DominatorsLoop(g, dag, predecessors, dominators,
                 Append(EnqueueUnset(dominators, rest,
                                     Ascending(predecessors[vertex_index])),
                        vertex_index),
                 seen1)
        ELSE IF vertex_index \notin DOMAIN dag.edges_in THEN Fail("Err")
        ELSE
        LET doms == NewDominators(g, dag, dominators, predecessors[vertex_index],
                                  vertex_index)
        IN  DominatorsLoop(g, dag, predecessors,
                           MapPut(dominators, vertex_index, doms),
                           EnqueueNew(rest, Tails(dag.edges_out[vertex_index])),
                           seen1)

\* order: the order in which the vertex maps of self and of the DAG are
\* iterated by compute_predecessors
compute_dominators(g, start_index, order) ==
    IF ~ has_vertex(g, start_index) THEN Fail("Err")
    ELSE IF start_index \notin DOMAIN g.edges_out THEN Fail("Panic")
    ELSE
    LET dag == compute_acyclic(g, start_index, order) IN
    IF dag.res # "Ok" THEN Fail(dag.res)
    ELSE
    LET predecessors == compute_predecessors(dag.val, order) IN
    IF predecessors.res # "Ok" THEN Fail(predecessors.res)
    ELSE DominatorsLoop(g, dag.val, predecessors.val,
                        MapPut(<<>>, start_index, {start_index}),
                        Tails(g.edges_out[start_index]), {})

\* compute_dominators up to the work queue loop: the loop's variables
\* [dag, predecessors, dominators, queue] as they are when the loop is entered
DominatorsEntry(g, start_index, order) ==
    IF ~ has_vertex(g, start_index) THEN Fail("Err")
    ELSE IF start_index \notin DOMAIN g.edges_out THEN Fail("Panic")
    ELSE
    LET dag == compute_acyclic(g, start_index, order) IN
    IF dag.res # "Ok" THEN Fail(dag.res)
    ELSE
    LET predecessors == compute_predecessors(dag.val, order) IN
    IF predecessors.res # "Ok" THEN Fail(predecessors.res)
    ELSE Return([dag |-> dag.val,
                 predecessors |-> predecessors.val,
                 dominators |-> MapPut(<<>>, start_index, {start_index}),
                 queue |-> Tails(g.edges_out[start_index])])

\* an iteration that puts the popped vertex back at the front of the queue
\* when one of its predecessors is unset
DominatorsIterationRequeueFirst(g, l) ==
    LET vertex_index == Head(l.queue)
        rest == Tail(l.queue)
    IN  IF \E p \in l.predecessors[vertex_index] : p \notin DOMAIN l.dominators
        THEN Return([l EXCEPT
                       !.queue = <<vertex_index>> \o
                                 EnqueueUnset(l.dominators, rest,
                                     Ascending(l.predecessors[vertex_index]))])
        ELSE
        LET doms == NewDominators(g, l.dag, l.dominators,
                                  l.predecessors[vertex_index], vertex_index)
        IN  Return([l EXCEPT
                       !.dominators = MapPut(@, vertex_index, doms),
                       !.queue = EnqueueNew(rest, Tails(l.dag.edges_out[vertex_index]))])

\* compute_dominators: one iteration of "while queue.len() > 0", from the
\* loop variables l to the loop variables after it
DominatorsIteration(g, l) ==
    LET vertex_index == Head(l.queue)
        rest == Tail(l.queue)
    IN  IF vertex_index \notin DOMAIN l.predecessors THEN Fail("Panic")
        ELSE IF \E p \in l.predecessors[vertex_index] : p \notin DOMAIN l.dominators
        THEN Return([l EXCEPT
                       !.queue = Append(EnqueueUnset(l.dominators, rest,
                                            Ascending(l.predecessors[vertex_index])),
                                        vertex_index)])
        ELSE IF vertex_index \notin DOMAIN l.dag.edges_in THEN Fail("Err")
        ELSE
        LET doms == NewDominators(g, l.dag, l.dominators,
                                  l.predecessors[vertex_index], vertex_index)
        IN  Return([l EXCEPT
                       !.dominators = MapPut(@, vertex_index, doms),
                       !.queue = EnqueueNew(rest, Tails(l.dag.edges_out[vertex_index]))])

\* compute_immediate_dominators: the strict dominators of v that are
\* dominators of no other strict dominator of v
IdomCandidates(dominators, vertex_index) ==
    LET sdoms == dominators[vertex_index] \ {vertex_index}
    IN  {sdom \in sdoms : \A sdom2 \in sdoms \ {sdom} : sdom \notin dominators[sdom2]}

compute_immediate_dominators(g, start_index, order) ==
    LET dominators == compute_dominators(g, start_index, order) IN
    IF dominators.res # "Ok" THEN Fail(dominators.res)
    ELSE IF \E v \in DOMAIN g.vertices : v \notin DOMAIN dominators.val
    THEN Fail("Panic")
    ELSE
    LET has == {v \in DOMAIN g.vertices : IdomCandidates(dominators.val, v) # {}}
    IN  Return([v \in has |-> Head(Ascending(IdomCandidates(dominators.val, v)))])

\* compute_dominance_frontiers: the runners whose frontier receives the join
\* point while walking up from the head of one incoming edge; seen holds the
\* runners passed so far
RECURSIVE Runners(_, _, _, _)
Runners(idoms, head_index, runner, seen) ==
    IF head_index \in DOMAIN idoms /\ runner # idoms[head_index] /\ runner \notin seen
    THEN {runner} \cup (IF runner \notin DOMAIN idoms THEN {}
                        ELSE Runners(idoms, head_index, idoms[runner],
                                     seen \cup {runner}))
    ELSE {}

\* the walk up from head_index comes back to a runner it has passed: the
\* while loop never ends
RECURSIVE WalkDiverges(_, _, _, _)
WalkDiverges(idoms, head_index, runner, seen) ==
    IF head_index \in DOMAIN idoms /\ runner # idoms[head_index]
    THEN \/ runner \in seen
         \/ /\ runner \in DOMAIN idoms
            /\ WalkDiverges(idoms, head_index, idoms[runner], seen \cup {runner})
    ELSE FALSE

\* compute_dominance_frontiers taking a join point to have more than two
\* incoming edges
compute_dominance_frontiers_over_two(g, start_index, order) ==
    LET idoms == compute_immediate_dominators(g, start_index, order) IN
    IF idoms.res # "Ok" THEN Fail(idoms.res)
    ELSE IF \E v \in DOMAIN g.vertices : v \notin DOMAIN g.edges_in THEN Fail("Panic")
    ELSE
    LET joins == {v \in DOMAIN g.vertices : Len(g.edges_in[v]) > 2}
    IN  IF \E v \in joins : \E h \in Heads(g.edges_in[v]) :
               Runners(idoms.val, h, h, {}) \ DOMAIN g.vertices # {}
        THEN Fail("Panic")
        ELSE IF \E v \in joins : \E h \in Heads(g.edges_in[v]) :
               WalkDiverges(idoms.val, h, h, {})
        THEN Fail("Diverge")
        ELSE Return([r \in DOMAIN g.vertices |->
                        {v \in joins : \E h \in Heads(g.edges_in[v]) :
                                           r \in Runners(idoms.val, h, h, {})}])

\* order: the order in which compute_predecessors iterates the vertex maps
compute_dominance_frontiers(g, start_index, order) ==
    LET idoms == compute_immediate_dominators(g, start_index, order) IN
    IF idoms.res # "Ok" THEN Fail(idoms.res)
    ELSE IF \E v \in DOMAIN g.vertices : v \notin DOMAIN g.edges_in THEN Fail("Panic")
    ELSE
    LET joins == {v \in DOMAIN g.vertices : Len(g.edges_in[v]) >= 2}
    IN  IF \E v \in joins : \E h \in Heads(g.edges_in[v]) :
               Runners(idoms.val, h, h, {}) \ DOMAIN g.vertices # {}
        THEN Fail("Panic")
        ELSE IF \E v \in joins : \E h \in Heads(g.edges_in[v]) :
               WalkDiverges(idoms.val, h, h, {})
        THEN Fail("Diverge")
        ELSE Return([r \in DOMAIN g.vertices |->
                        {v \in joins : \E h \in Heads(g.edges_in[v]) :
                                           r \in Runners(idoms.val, h, h, {})}])

---------------------------------------------------------------------------
(* ControlFlowGraph: a Graph<Block, Edge> with a block index allocator and *)
(* optional entry and exit.  A Block is [index, instructions]; an          *)
(* instruction is represented by the index of the block it was pushed to.  *)

Block_new(index) == [index |-> index, instructions |-> <<>>]

\* Block::append(&other): the instructions of other follow those of self
Block_append(block, other) ==
    [block EXCEPT !.instructions = @ \o other.instructions]

Edge_new(head, tail, condition) ==
    [head |-> head, tail |-> tail, condition |-> condition]

ControlFlowGraph_new ==
    [graph |-> new, next_index |-> 0, entry |-> None, exit |-> None]

\* Result of a ControlFlowGraph operation
CfgResult(c, res) == [cfg |-> c, res |-> res]

\* a new_block that does not advance next_index
new_block_reusing(c) ==
    LET r == insert_vertex(c.graph, Block_new(c.next_index))
    IN  CfgResult([c EXCEPT !.graph = r.g], r.res)

new_block(c) ==
    LET r == insert_vertex(c.graph, Block_new(c.next_index))
    IN  CfgResult([c EXCEPT !.next_index = @ + 1, !.graph = r.g], r.res)

unconditional_edge(c, head, tail) ==
    LET r == insert_edge(c.graph, Edge_new(head, tail, None))
    IN  CfgResult([c EXCEPT !.graph = r.g], r.res)

conditional_edge(c, head, tail, condition) ==
    LET r == insert_edge(c.graph, Edge_new(head, tail, Some(condition)))
    IN  CfgResult([c EXCEPT !.graph = r.g], r.res)

set_entry(c, entry) ==
    IF has_vertex(c.graph, entry)
    THEN CfgResult([c EXCEPT !.entry = Some(entry)], "Ok")
    ELSE CfgResult(c, "Err")

set_exit(c, exit) ==
    IF has_vertex(c.graph, exit)
    THEN CfgResult([c EXCEPT !.exit = Some(exit)], "Ok")
    ELSE CfgResult(c, "Err")

\* merge, the search loop: the blocks at which the iteration over
\* self.blocks() can stop.  A block with exactly one outgoing edge, which is
\* unconditional, is a candidate when its successor has exactly one incoming
\* edge; the search aborts on it when the successor has no edges_in entry
SingleSuccessor(c, b) ==
    /\ Len(c.graph.edges_out[b]) = 1
    /\ c.graph.edges_out[b][1].condition = None

MergeCandidates(c) ==
    {b \in DOMAIN c.graph.vertices :
        /\ SingleSuccessor(c, b)
        /\ c.graph.edges_out[b][1].tail \in DOMAIN c.graph.edges_in
        /\ Len(c.graph.edges_in[c.graph.edges_out[b][1].tail]) = 1}

MergeAborts(c) ==
    {b \in DOMAIN c.graph.vertices :
        /\ SingleSuccessor(c, b)
        /\ c.graph.edges_out[b][1].tail \notin DOMAIN c.graph.edges_in}

\* merge: "for edge in new_edges { self.graph.insert_edge(edge)?; }"
RECURSIVE InsertEdges(_, _)
InsertEdges(g, es) ==
    IF es = <<>> THEN Ok(g)
    ELSE LET r == insert_edge(g, Head(es))
         IN  IF r.res = "Ok" THEN InsertEdges(r.g, Tail(es)) ELSE r

\* a contraction that forgets to append the successor's instructions
ContractWithoutAppend(c, merge_index, successor_index) ==
    IF ~ has_vertex(c.graph, successor_index) \/ ~ has_vertex(c.graph, merge_index)
    THEN CfgResult(c, "Err")
    ELSE
    LET g1 == c.graph
    IN  IF successor_index \notin DOMAIN g1.edges_out
        THEN CfgResult([c EXCEPT !.graph = g1], "Panic")
        ELSE
        LET outs == g1.edges_out[successor_index]
            new_edges == [n \in 1..Len(outs) |->
                            Edge_new(merge_index, outs[n].tail, outs[n].condition)]
            r2 == InsertEdges(g1, new_edges)
        IN  IF r2.res # "Ok" THEN CfgResult([c EXCEPT !.graph = r2.g], r2.res)
            ELSE LET r3 == remove_vertex(r2.g, successor_index)
                 IN  CfgResult([c EXCEPT !.graph = r3.g], r3.res)

\* merge, "we have a block to merge": one contraction
Contract(c, merge_index, successor_index) ==
    IF ~ has_vertex(c.graph, successor_index) \/ ~ has_vertex(c.graph, merge_index)
    THEN CfgResult(c, "Err")
    ELSE
    LET successor_block == c.graph.vertices[successor_index]
        g1 == [c.graph EXCEPT !.vertices[merge_index] =
                                  Block_append(@, successor_block)]
    IN  IF successor_index \notin DOMAIN g1.edges_out
        THEN CfgResult([c EXCEPT !.graph = g1], "Panic")
        ELSE
        LET outs == g1.edges_out[successor_index]
            new_edges == [n \in 1..Len(outs) |->
                            Edge_new(merge_index, outs[n].tail, outs[n].condition)]
            r2 == InsertEdges(g1, new_edges)
        IN  IF r2.res # "Ok" THEN CfgResult([c EXCEPT !.graph = r2.g], r2.res)
            ELSE LET r3 == remove_vertex(r2.g, successor_index)
                 IN  CfgResult([c EXCEPT !.graph = r3.g], r3.res)

\* merge: every way the loop can run, the vertex map presenting the blocks
\* in any order at each round.  An outcome is [cfg, res, counts], counts the
\* number of blocks before the first and after each contraction
RECURSIVE MergeOutcomes(_, _)
MergeOutcomes(c, counts) ==
    IF MergeCandidates(c) \cup MergeAborts(c) = {}
    THEN {[cfg |-> c, res |-> "Ok", counts |-> counts]}
    ELSE
        {[cfg |-> c, res |-> "Panic", counts |-> counts] : b \in MergeAborts(c)}
        \cup
        UNION { LET r == Contract(c, b, c.graph.edges_out[b][1].tail)
                    n == Append(counts, Cardinality(DOMAIN r.cfg.graph.vertices))
                IN  IF r.res = "Ok" THEN MergeOutcomes(r.cfg, n)
                    ELSE {[cfg |-> r.cfg, res |-> r.res, counts |-> n]}
              : b \in MergeCandidates(c) }

\* a merge whose loop stops after its first contraction
merge_once(c) ==
    IF MergeCandidates(c) \cup MergeAborts(c) = {}
    THEN {[cfg |-> c, res |-> "Ok", counts |-> <<Cardinality(DOMAIN c.graph.vertices)>>]}
    ELSE
        {[cfg |-> c, res |-> "Panic", counts |-> <<Cardinality(DOMAIN c.graph.vertices)>>]
            : b \in MergeAborts(c)}
        \cup
        { LET r == Contract(c, b, c.graph.edges_out[b][1].tail)
          IN  [cfg |-> r.cfg, res |-> r.res,
               counts |-> <<Cardinality(DOMAIN c.graph.vertices),
                            Cardinality(DOMAIN r.cfg.graph.vertices)>>]
          : b \in MergeCandidates(c) }

merge(c) == MergeOutcomes(c, <<Cardinality(DOMAIN c.graph.vertices)>>)

---------------------------------------------------------------------------
(* ControlFlowGraph composition: append and insert import the blocks and   *)
(* edges of another ControlFlowGraph.  vorder and eorder are the orders in *)
(* which other.graph().vertices() and other.graph().edges() present the    *)
(* entries of the two maps.  An import returns [cfg, res, map], map being  *)
(* block_map.                                                              *)

\* Block::clone_new_index(index): a copy of the block under a new index
clone_new_index(block, index) == [block EXCEPT !.index = index]

Imported(c, res, block_map) == [cfg |-> c, res |-> res, map |-> block_map]

\* "for block in other.graph().vertices()"
RECURSIVE ImportBlocks(_, _, _, _)
ImportBlocks(c, other, vorder, block_map) ==
    IF vorder = <<>> THEN Imported(c, "Ok", block_map)
    ELSE
    LET block == other.graph.vertices[Head(vorder)]
        new_block_ == clone_new_index(block, c.next_index)
        map1 == MapPut(block_map, block.index, c.next_index)
        r == insert_vertex(c.graph, new_block_)
        c1 == [c EXCEPT !.next_index = @ + 1, !.graph = r.g]
    IN  IF r.res = "Ok" THEN ImportBlocks(c1, other, Tail(vorder), map1)
        ELSE Imported(c1, r.res, map1)

\* an import of the edges that leaves their tails as other numbered them
RECURSIVE ImportEdgesKeepingTail(_, _, _, _)
ImportEdgesKeepingTail(c, other, eorder, block_map) ==
    IF eorder = <<>> THEN Imported(c, "Ok", block_map)
    ELSE
    LET edge == other.graph.edges[Head(eorder)]
    IN  IF edge.head \notin DOMAIN block_map \/ edge.tail \notin DOMAIN block_map
        THEN Imported(c, "Panic", block_map)
        ELSE
        LET new_edge == Edge_new(block_map[edge.head], edge.tail, edge.condition)
            r == insert_edge(c.graph, new_edge)
            c1 == [c EXCEPT !.graph = r.g]
        IN  IF r.res = "Ok"
            THEN ImportEdgesKeepingTail(c1, other, Tail(eorder), block_map)
            ELSE Imported(c1, r.res, block_map)

\* "for edge in other.graph().edges()"; block_map[..] aborts on a missing key
RECURSIVE ImportEdges(_, _, _, _)
ImportEdges(c, other, eorder, block_map) ==
    IF eorder = <<>> THEN Imported(c, "Ok", block_map)
    ELSE
    LET edge == other.graph.edges[Head(eorder)]
    IN  IF edge.head \notin DOMAIN block_map \/ edge.tail \notin DOMAIN block_map
        THEN Imported(c, "Panic", block_map)
        ELSE
        LET new_edge == Edge_new(block_map[edge.head], block_map[edge.tail],
                                 edge.condition)
            r == insert_edge(c.graph, new_edge)
            c1 == [c EXCEPT !.graph = r.g]
        IN  IF r.res = "Ok" THEN ImportEdges(c1, other, Tail(eorder), block_map)
            ELSE Imported(c1, r.res, block_map)

\* an append that adds no transition edge
AppendLinkWithoutEdge(c, other, is_empty, block_map) ==
    IF other.entry[1] \notin DOMAIN block_map
    THEN Imported(c, "Panic", block_map)
    ELSE
    LET c1 == IF is_empty
              THEN [c EXCEPT !.entry = Some(block_map[other.entry[1]])]
              ELSE c
    IN  IF other.exit[1] \notin DOMAIN block_map
        THEN Imported(c1, "Panic", block_map)
        ELSE Imported([c1 EXCEPT !.exit = Some(block_map[other.exit[1]])],
                      "Ok", block_map)

\* append, after the import: entry or the transition edge, then exit
AppendLink(c, other, is_empty, block_map) ==
    IF other.entry[1] \notin DOMAIN block_map
    THEN Imported(c, "Panic", block_map)
    ELSE
    LET r == IF is_empty
             THEN Ok(c.graph)
             ELSE insert_edge(c.graph,
                              Edge_new(c.exit[1], block_map[other.entry[1]], None))
        c1 == IF is_empty
              THEN [c EXCEPT !.entry = Some(block_map[other.entry[1]])]
              ELSE [c EXCEPT !.graph = r.g]
    IN  IF r.res # "Ok" THEN Imported(c1, r.res, block_map)
        ELSE IF other.exit[1] \notin DOMAIN block_map
        THEN Imported(c1, "Panic", block_map)
        ELSE Imported([c1 EXCEPT !.exit = Some(block_map[other.exit[1]])],
                      "Ok", block_map)

\* an append that does not look at the entry and exit of self
append_unchecked(c, other, vorder, eorder) ==
    LET is_empty == Cardinality(DOMAIN c.graph.vertices) = 0
    IN  IF other.entry = None \/ other.exit = None
        THEN Imported(c, "Err", <<>>)
        ELSE
        LET r1 == ImportBlocks(c, other, vorder, <<>>)
        IN  IF r1.res # "Ok" THEN r1
            ELSE LET r2 == ImportEdges(r1.cfg, other, eorder, r1.map)
                 IN  IF r2.res # "Ok" THEN r2
                     ELSE IF ~ is_empty /\ c.exit = None
                     THEN Imported(r2.cfg, "Panic", r2.map)
                     ELSE AppendLink(r2.cfg, other, is_empty, r2.map)

\* append(other): the precondition checks, the import, the link
append(c, other, vorder, eorder) ==
    LET is_empty == Cardinality(DOMAIN c.graph.vertices) = 0
    IN  IF ~ is_empty /\ (c.entry = None \/ c.exit = None)
        THEN Imported(c, "Err", <<>>)
        ELSE IF other.entry = None \/ other.exit = None
        THEN Imported(c, "Err", <<>>)
        ELSE
        LET r1 == ImportBlocks(c, other, vorder, <<>>)
        IN  IF r1.res # "Ok" THEN r1
            ELSE LET r2 == ImportEdges(r1.cfg, other, eorder, r1.map)
                 IN  IF r2.res # "Ok" THEN r2
                     ELSE AppendLink(r2.cfg, other, is_empty, r2.map)

\* insert returns [cfg, res, map, val], val the returned pair when res is Ok
Inserted(r, val) == [cfg |-> r.cfg, res |-> r.res, map |-> r.map, val |-> val]

\* an insert that leaves the entry and exit of self in place
insert_without_clearing(c, other, vorder, eorder) ==
    IF other.entry = None \/ other.exit = None
    THEN Inserted(Imported(c, "Err", <<>>), <<>>)
    ELSE
    LET r1 == ImportBlocks(c, other, vorder, <<>>)
    IN  IF r1.res # "Ok" THEN Inserted(r1, <<>>)
        ELSE
        LET r2 == ImportEdges(r1.cfg, other, eorder, r1.map)
            found(i) == i \in DOMAIN other.graph.vertices
        IN  IF r2.res # "Ok" THEN Inserted(r2, <<>>)
            ELSE IF ~ found(other.entry[1]) \/ ~ found(other.exit[1])
            THEN Inserted(Imported(r2.cfg, "Err", r2.map), <<>>)
            ELSE Inserted(r2, <<r2.map[other.entry[1]], r2.map[other.exit[1]]>>)

insert(c, other, vorder, eorder) ==
    IF other.entry = None \/ other.exit = None
    THEN Inserted(Imported(c, "Err", <<>>), <<>>)
    ELSE
    LET c0 == [c EXCEPT !.entry = None, !.exit = None]
        r1 == ImportBlocks(c0, other, vorder, <<>>)
    IN  IF r1.res # "Ok" THEN Inserted(r1, <<>>)
        ELSE
        LET r2 == ImportEdges(r1.cfg, other, eorder, r1.map)
            \* entry_index / exit_index are set where the loop over the
            \* blocks meets other.entry / other.exit
            found(i) == i \in DOMAIN other.graph.vertices
        IN  IF r2.res # "Ok" THEN Inserted(r2, <<>>)
            ELSE IF ~ found(other.entry[1]) \/ ~ found(other.exit[1])
            THEN Inserted(Imported(r2.cfg, "Err", r2.map), <<>>)
            ELSE Inserted(r2, <<r2.map[other.entry[1]], r2.map[other.exit[1]]>>)

---------------------------------------------------------------------------
(* def_use and use_def.  An AnalysisLocation is [tag, id].  Of the         *)
(* ControlFlowGraph the two functions see what find() returns: env.edge is *)
(* None when the Edge location does not resolve and else Some of the       *)
(* edge's condition (None, or Some of its scalars); env.instructions[i] is *)
(* None when Instruction i does not resolve and else Some of [read,        *)
(* written], the variables read and the optional variable written.         *)
(* reaching_definitions maps locations to Reaches.in_(), a set.            *)

\* the state in which neither function has been given anything
NoDefUse == [rd |-> <<>>, env |-> <<>>, du |-> <<>>, ud |-> <<>>]

InstructionLocation(i) == [tag |-> "Instruction", id |-> i]
EdgeLocation == [tag |-> "Edge", id |-> 0]
EmptyBlockLocation == [tag |-> "EmptyBlock", id |-> 0]

\* the derived order of AnalysisLocation: variants in declaration order
LocationRank(l) ==
    IF l.tag = "Instruction" THEN l.id
    ELSE IF l.tag = "Edge" THEN NumInstructionLocations + 2
    ELSE NumInstructionLocations + 3

\* the elements of a BTreeSet / keys of a BTreeMap of locations, in order
RECURSIVE InOrder(_)
InOrder(S) ==
    IF S = {} THEN <<>>
    ELSE LET m == CHOOSE x \in S : \A y \in S : LocationRank(x) <= LocationRank(y)
         IN  <<m>> \o InOrder(S \ {m})

\* "build our haystack of uses to search for defs against"
Haystack(this_location, env) ==
    IF this_location.tag = "Edge"
    THEN IF env.edge = None THEN Fail("Panic")
         ELSE IF env.edge[1] = None THEN Return({})
         ELSE Return(env.edge[1][1])
    ELSE IF this_location.tag = "Instruction"
    THEN IF env.instructions[this_location.id] = None THEN Fail("Err")
         ELSE Return(env.instructions[this_location.id][1].read)
    ELSE Return({})

\* "for each reaching definition that reaches here"; kind is "du" in def_use
\* and "ud" in use_def, which differ in the insertion alone
RECURSIVE ReachingLoop(_, _, _, _, _, _)
ReachingLoop(kind, env, this_location, haystack, defs, map) ==
    IF defs = <<>> THEN Return(map)
    ELSE
    LET def_location == Head(defs)
        rest == Tail(defs)
    IN  IF def_location.tag # "Instruction"
        THEN ReachingLoop(kind, env, this_location, haystack, rest, map)
        ELSE IF env.instructions[def_location.id] = None THEN Fail("Err")
        ELSE
        LET variable_written == env.instructions[def_location.id][1].written
        IN  IF variable_written = None \/ variable_written[1] \notin haystack
            THEN ReachingLoop(kind, env, this_location, haystack, rest, map)
            ELSE IF kind = "du"
            THEN IF def_location \notin DOMAIN map THEN Fail("Panic")
                 ELSE ReachingLoop(kind, env, this_location, haystack, rest,
                         [map EXCEPT ![def_location] = @ \cup {this_location}])
            ELSE ReachingLoop(kind, env, this_location, haystack, rest,
                         [map EXCEPT ![this_location] = @ \cup {def_location}])

\* "for every reaching destination"
RECURSIVE LocationsLoop(_, _, _, _, _)
LocationsLoop(kind, reaching_definitions, env, keys, map) ==
    IF keys = <<>> THEN Return(map)
    ELSE
    LET this_location == Head(keys)
        haystack == Haystack(this_location, env)
    IN  IF haystack.res # "Ok" THEN Fail(haystack.res)
        ELSE
        LET r == ReachingLoop(kind, env, this_location, haystack.val,
                              InOrder(reaching_definitions[this_location]), map)
        IN  IF r.res # "Ok" THEN r
            ELSE LocationsLoop(kind, reaching_definitions, env, Tail(keys), r.val)

\* an initialisation that also gives every reaching definition an entry
EmptySetsWithReaching(reaching_definitions) ==
    [l \in DOMAIN reaching_definitions
            \cup UNION {reaching_definitions[k] : k \in DOMAIN reaching_definitions}
        |-> {}]

\* "initialize the resulting map first"
EmptySets(reaching_definitions) == [l \in DOMAIN reaching_definitions |-> {}]

def_use(reaching_definitions, env) ==
    LocationsLoop("du", reaching_definitions, env,
                  InOrder(DOMAIN reaching_definitions),
                  EmptySets(reaching_definitions))

use_def(reaching_definitions, env) ==
    LocationsLoop("ud", reaching_definitions, env,
                  InOrder(DOMAIN reaching_definitions),
                  EmptySets(reaching_definitions))

---------------------------------------------------------------------------
(* The Graph as a state machine: one action per public mutating operation *)

NoAnalysis == [kind |-> "none"]

Init ==
    /\ graph = new
    /\ last = [op |-> "new", res |-> "Ok"]
    /\ start = 0
    /\ analysis = NoAnalysis
    /\ cfg = ControlFlowGraph_new
    /\ defuse = NoDefUse

Running == last.res # "Panic"

Call(op, r) ==
    /\ graph' = r.g
    /\ last' = [op |-> op, res |-> r.res]
    /\ UNCHANGED <<start, analysis, cfg, defuse>>

InsertVertex ==
    \E i \in Indices :
        /\ Running
        /\ Call("insert_vertex", insert_vertex(graph, NullVertex(i)))

\* insert_edge is only called with both endpoints present
InsertEdge ==
    \E h \in Indices, t \in Indices :
        /\ Running
        /\ has_vertex(graph, h) /\ has_vertex(graph, t)
        /\ Cardinality(DOMAIN graph.edges) < MaxEdges
        /\ Call("insert_edge", insert_edge(graph, NullEdge(h, t)))

RemoveEdge ==
    \E h \in Indices, t \in Indices :
        /\ Running
        /\ Call("remove_edge", remove_edge(graph, h, t))

RemoveVertex ==
    \E i \in Indices :
        /\ Running
        /\ Call("remove_vertex", remove_vertex(graph, i))

SetHead ==
    \E i \in Indices :
        /\ Running
        /\ Call("set_head", set_head(graph, i))

Next == InsertVertex \/ InsertEdge \/ RemoveEdge \/ RemoveVertex \/ SetHead

Spec == Init /\ [][Next]_vars

---------------------------------------------------------------------------
(* The analyses applied to graphs built by insert_vertex and insert_edge *)

DomVertices == 0..(NumVertices - 1)

InitDom ==
    /\ graph = NullVertices(new, Ascending(DomVertices))
    /\ last = [op |-> "new", res |-> "Ok"]
    /\ start = 0
    /\ analysis = NoAnalysis
    /\ cfg = ControlFlowGraph_new
    /\ defuse = NoDefUse

DomInsertEdge ==
    \E h \in DomVertices, t \in DomVertices :
        /\ analysis = NoAnalysis
        /\ Cardinality(DOMAIN graph.edges) < MaxDomEdges
        /\ <<h, t>> \notin DOMAIN graph.edges
        /\ graph' = insert_edge(graph, NullEdge(h, t)).g
        /\ UNCHANGED <<last, start, analysis, cfg, defuse>>

\* an analysis was called with start_index s and returned out
Analysed(kind, s, out) ==
    /\ analysis = NoAnalysis
    /\ start' = s
    /\ analysis' = [kind |-> kind, res |-> out.res, val |-> out.val]
    /\ UNCHANGED <<graph, last, cfg, defuse>>

ComputePredecessors ==
    \E order \in AllOrders(DOMAIN graph.vertices) :
        Analysed("compute_predecessors", start, compute_predecessors(graph, order))

ComputeAcyclic ==
    \E s \in DOMAIN graph.vertices, order \in HashOrders(DOMAIN graph.vertices) :
        Analysed("compute_acyclic", s, compute_acyclic(graph, s, order))

ComputeDominators ==
    \E s \in DOMAIN graph.vertices, order \in HashOrders(DOMAIN graph.vertices) :
        Analysed("compute_dominators", s, compute_dominators(graph, s, order))

ComputeImmediateDominators ==
    \E s \in DOMAIN graph.vertices, order \in HashOrders(DOMAIN graph.vertices) :
        Analysed("compute_immediate_dominators", s,
                 compute_immediate_dominators(graph, s, order))

ComputeDominanceFrontiers ==
    \E s \in DOMAIN graph.vertices, order \in HashOrders(DOMAIN graph.vertices) :
        Analysed("compute_dominance_frontiers", s,
                 compute_dominance_frontiers(graph, s, order))

NextDom == DomInsertEdge \/ ComputeAcyclic \/ ComputeDominators

SpecDom == InitDom /\ [][NextDom]_vars

NextIdom == DomInsertEdge \/ ComputeImmediateDominators \/ ComputeDominanceFrontiers

SpecIdom == InitDom /\ [][NextIdom]_vars

NextPred == DomInsertEdge \/ ComputePredecessors

SpecPred == InitDom /\ [][NextPred]_vars

\* compute_dominators taken one iteration of its work queue loop at a time:
\* while the loop runs, analysis.loop holds the loop's variables
InLoop == analysis.kind = "dominators_loop"

Looping(l) == [kind |-> "dominators_loop", res |-> "Running", loop |-> l]

Finished(out) == [kind |-> "compute_dominators", res |-> out.res, val |-> out.val]

EnterDominators ==
    \E s \in DOMAIN graph.vertices, order \in HashOrders(DOMAIN graph.vertices) :
        LET entry == DominatorsEntry(graph, s, order) IN
        /\ analysis = NoAnalysis
        /\ start' = s
        /\ analysis' = IF entry.res = "Ok" THEN Looping(entry.val) ELSE Finished(entry)
        /\ UNCHANGED <<graph, last, cfg, defuse>>

IterateDominators ==
    /\ InLoop
    /\ analysis.loop.queue # <<>>
    /\ LET out == DominatorsIteration(graph, analysis.loop) IN
       analysis' = IF out.res = "Ok" THEN Looping(out.val) ELSE Finished(out)
    /\ UNCHANGED <<graph, last, start, cfg, defuse>>

\* "Ok(dominators)"
LeaveDominators ==
    /\ InLoop
    /\ analysis.loop.queue = <<>>
    /\ analysis' = Finished(Return(analysis.loop.dominators))
    /\ UNCHANGED <<graph, last, start, cfg, defuse>>

NextDomLoop == DomInsertEdge \/ EnterDominators \/ IterateDominators \/ LeaveDominators

\* a call of compute_dominators runs on: its loop is never suspended forever
SpecDomLoop ==
    InitDom /\ [][NextDomLoop]_vars
        /\ WF_vars(IterateDominators) /\ WF_vars(LeaveDominators)

---------------------------------------------------------------------------
(* The analyses on the diamond: vertices 0..3, the edges 0->1, 0->2, 1->3,  *)
(* 2->3 inserted one by one                                                *)

DiamondEdges == <<<<0, 1>>, <<0, 2>>, <<1, 3>>, <<2, 3>>>>

DiamondVertices == UNION {{DiamondEdges[n][1], DiamondEdges[n][2]} : n \in DOMAIN DiamondEdges}

InitDiamond ==
    /\ graph = NullVertices(new, Ascending(DiamondVertices))
    /\ last = [op |-> "new", res |-> "Ok"]
    /\ start = 0
    /\ analysis = NoAnalysis
    /\ cfg = ControlFlowGraph_new
    /\ defuse = NoDefUse

DiamondInsertEdge ==
    \E n \in DOMAIN DiamondEdges :
        /\ analysis = NoAnalysis
        /\ DiamondEdges[n] \notin DOMAIN graph.edges
        /\ graph' = insert_edge(graph, NullEdge(DiamondEdges[n][1], DiamondEdges[n][2])).g
        /\ UNCHANGED <<last, start, analysis, cfg, defuse>>

NextDiamond ==
    \/ DiamondInsertEdge
    \/ ComputeDominators
    \/ ComputeImmediateDominators
    \/ ComputeDominanceFrontiers

SpecDiamond == InitDiamond /\ [][NextDiamond]_vars

---------------------------------------------------------------------------
(* compute_dominators on larger graphs: LargeVertices vertices, start 0,   *)
(* the edges inserted in ascending (head, tail) order                      *)

LargeSet == 0..(LargeVertices - 1)

InitLarge ==
    /\ graph = NullVertices(new, Ascending(LargeSet))
    /\ last = [op |-> "new", res |-> "Ok"]
    /\ start = 0
    /\ analysis = NoAnalysis
    /\ cfg = ControlFlowGraph_new
    /\ defuse = NoDefUse

Precedes(k, h, t) == k[1] < h \/ (k[1] = h /\ k[2] < t)

LargeInsertEdge ==
    \E h \in LargeSet, t \in LargeSet :
        /\ analysis = NoAnalysis
        /\ Cardinality(DOMAIN graph.edges) < LargeEdges
        /\ \A k \in DOMAIN graph.edges : Precedes(k, h, t)
        /\ graph' = insert_edge(graph, NullEdge(h, t)).g
        /\ UNCHANGED <<last, start, analysis, cfg, defuse>>

LargeComputeDominators ==
    \E order \in HashOrders(DOMAIN graph.vertices) :
        Analysed("compute_dominators", 0, compute_dominators(graph, 0, order))

NextLarge == LargeInsertEdge \/ LargeComputeDominators

SpecLarge == InitLarge /\ [][NextLarge]_vars

---------------------------------------------------------------------------
(* The ControlFlowGraph as a state machine *)

\* the indices new_block has handed out so far; callers name blocks by these
AllocatedIds(c) == 0..(c.next_index - 1)
Conditions == {"cond"}

InitCfg ==
    /\ graph = new
    /\ last = [op |-> "new", res |-> "Ok"]
    /\ start = 0
    /\ analysis = NoAnalysis
    /\ cfg = ControlFlowGraph_new
    /\ defuse = NoDefUse

CfgCall(op, r) ==
    /\ cfg' = r.cfg
    /\ last' = [op |-> op, res |-> r.res]
    /\ UNCHANGED <<graph, start, analysis, defuse>>

NumInstructions(c) ==
    LET bs == Ascending(DOMAIN c.graph.vertices)
        Sum[n \in 0..Len(bs)] ==
            IF n = 0 THEN 0 ELSE Sum[n - 1] + Len(c.graph.vertices[bs[n]].instructions)
    IN  Sum[Len(bs)]

NewBlock ==
    /\ Running
    /\ cfg.next_index < MaxBlocks
    /\ CfgCall("new_block", new_block(cfg))

\* the caller pushes an instruction through the handle new_block returned,
\* which borrows the ControlFlowGraph until the caller lets go of it
PushInstruction ==
    /\ Running
    /\ last.op \in {"new_block", "push"}
    /\ last.res = "Ok"
    /\ NumInstructions(cfg) < MaxInstructions
    /\ cfg' = [cfg EXCEPT !.graph.vertices[cfg.next_index - 1].instructions =
                              Append(@, cfg.next_index - 1)]
    /\ last' = [op |-> "push", res |-> "Ok"]
    /\ UNCHANGED <<graph, start, analysis, defuse>>

UnconditionalEdge ==
    \E h \in AllocatedIds(cfg), t \in AllocatedIds(cfg) :
        /\ Running
        /\ Cardinality(DOMAIN cfg.graph.edges) < MaxCfgEdges
        /\ CfgCall("unconditional_edge", unconditional_edge(cfg, h, t))

ConditionalEdge ==
    \E h \in AllocatedIds(cfg), t \in AllocatedIds(cfg), condition \in Conditions :
        /\ Running
        /\ Cardinality(DOMAIN cfg.graph.edges) < MaxCfgEdges
        /\ CfgCall("conditional_edge", conditional_edge(cfg, h, t, condition))

Merge ==
    \E r \in merge(cfg) :
        /\ Running
        /\ NumInstructions(cfg) <= MaxInstructions
        /\ cfg' = r.cfg
        /\ last' = [op |-> "merge", res |-> r.res, counts |-> r.counts]
        /\ UNCHANGED <<graph, start, analysis, defuse>>

NextCfg ==
    NewBlock \/ PushInstruction \/ UnconditionalEdge \/ ConditionalEdge \/ Merge

SpecCfg == InitCfg /\ [][NextCfg]_vars

---------------------------------------------------------------------------
(* Composition of ControlFlowGraphs as state machines: cfg is built with   *)
(* new_block and merge, and other ControlFlowGraphs are appended to it or  *)
(* inserted into it; its edges come from them.                             *)

\* the ControlFlowGraph after n calls of new_block
RECURSIVE WithBlocks(_)
WithBlocks(n) ==
    IF n = 0 THEN ControlFlowGraph_new ELSE new_block(WithBlocks(n - 1)).cfg

OptionalConditions == {None} \cup {Some(x) : x \in Conditions}

\* the sets of at most k edges over n blocks, no two with the same endpoints
RECURSIVE EdgeSets(_, _)
EdgeSets(n, k) ==
    IF k = 0 THEN {{}}
    ELSE LET smaller == EdgeSets(n, k - 1)
         IN  smaller \cup
             {E \cup {Edge_new(h, t, x)} :
                 E \in {F \in smaller : Cardinality(F) = k - 1},
                 h \in 0..(n - 1), t \in 0..(n - 1), x \in OptionalConditions}

DistinctEndpoints(E) ==
    \A e, f \in E : (e.head = f.head /\ e.tail = f.tail) => e = f

RECURSIVE WithEdges(_, _)
WithEdges(c, E) ==
    IF E = {} THEN c
    ELSE LET e == CHOOSE x \in E : TRUE
         IN  WithEdges([c EXCEPT !.graph = insert_edge(@, e).g], E \ {e})

OptionalIndex(n) == {None} \cup {Some(i) : i \in 0..(n - 1)}

WithEntryExit(c, entry, exit) ==
    LET c1 == IF entry = None THEN c ELSE set_entry(c, entry[1]).cfg
    IN  IF exit = None THEN c1 ELSE set_exit(c1, exit[1]).cfg

\* the ControlFlowGraphs handed to append and insert: built by new_block,
\* the two edge operations, set_entry and set_exit, and possibly merged
BuiltCfgs ==
    {WithEntryExit(WithEdges(WithBlocks(n), E), entry, exit) :
        n \in 0..MaxOtherBlocks,
        E \in UNION {{F \in EdgeSets(m, MaxOtherEdges) : DistinctEndpoints(F)}
                        : m \in 0..MaxOtherBlocks},
        entry \in OptionalIndex(MaxOtherBlocks),
        exit \in OptionalIndex(MaxOtherBlocks)}

WellBuilt(c) ==
    /\ \A k \in DOMAIN c.graph.edges : has_vertex(c.graph, k[1]) /\ has_vertex(c.graph, k[2])
    /\ Cardinality(DOMAIN c.graph.edges) <= MaxOtherEdges

OtherCfgs ==
    LET built == {c \in BuiltCfgs : WellBuilt(c)}
    IN  built \cup {r.cfg : r \in UNION {merge(c) : c \in built}}

\* an operation of this machine; val is the pair insert returned
Composed(op, r) ==
    /\ cfg' = r.cfg
    /\ last' = [op |-> op, res |-> r.res,
                val |-> IF op = "insert" THEN r.val ELSE <<>>]
    /\ UNCHANGED <<graph, start, analysis, defuse>>

Fits(c, other) ==
    /\ c.next_index + Cardinality(DOMAIN other.graph.vertices) <= MaxComposed
    /\ Cardinality(DOMAIN c.graph.edges) + Cardinality(DOMAIN other.graph.edges)
          < MaxCfgEdges

SetEntry ==
    \E i \in AllocatedIds(cfg) :
        /\ Running
        /\ CfgCall("set_entry", set_entry(cfg, i))

SetExit ==
    \E i \in AllocatedIds(cfg) :
        /\ Running
        /\ CfgCall("set_exit", set_exit(cfg, i))

AppendCfg ==
    \E other \in {o \in OtherCfgs : Fits(cfg, o)} :
        \E vorder \in AllOrders(DOMAIN other.graph.vertices),
           eorder \in AllOrders(DOMAIN other.graph.edges) :
            /\ Running
            /\ Composed("append", append(cfg, other, vorder, eorder))

InsertCfg ==
    \E other \in {o \in OtherCfgs : Fits(cfg, o)} :
        \E vorder \in AllOrders(DOMAIN other.graph.vertices),
           eorder \in AllOrders(DOMAIN other.graph.edges) :
            /\ Running
            /\ Composed("insert", insert(cfg, other, vorder, eorder))

NextCompose == NewBlock \/ Merge \/ AppendCfg \/ InsertCfg

SpecCompose == InitCfg /\ [][NextCompose]_vars

\* cfg is given its entry and exit by the caller, and grows by append alone
NextAppend == NewBlock \/ SetEntry \/ SetExit \/ AppendCfg

SpecAppend == InitCfg /\ [][NextAppend]_vars

\* the ControlFlowGraphs whose import is followed block by block and edge by
\* edge: built like OtherCfgs, with room for two blocks joined by an edge;
\* entry and exit are set, as append and insert require of their argument,
\* to the first and the last block
ImportBuilt ==
    UNION {{WithEntryExit(WithEdges(WithBlocks(n), E), Some(0), Some(n - 1)) :
                E \in {F \in EdgeSets(n, MaxImportEdges) : DistinctEndpoints(F)}}
            : n \in 1..MaxImportBlocks}

ImportCfgs ==
    ImportBuilt \cup {r.cfg : r \in UNION {merge(c) : c \in ImportBuilt}}

ImportFits(c, other) ==
    c.next_index + Cardinality(DOMAIN other.graph.vertices) <= MaxImported

\* append or insert has returned r for the argument other; beside the Result
\* of a successful call last keeps the argument and block_map
Import(op, other, r) ==
    /\ cfg' = r.cfg
    /\ last' = IF r.res = "Ok"
               THEN [op |-> op, res |-> r.res, other |-> other, map |-> r.map]
               ELSE [op |-> op, res |-> r.res]
    /\ UNCHANGED <<graph, start, analysis, defuse>>

ImportAppend ==
    \E other \in {o \in ImportCfgs : ImportFits(cfg, o)} :
        \E vorder \in AllOrders(DOMAIN other.graph.vertices),
           eorder \in AllOrders(DOMAIN other.graph.edges) :
            /\ Running
            /\ Import("append", other, append(cfg, other, vorder, eorder))

ImportInsert ==
    \E other \in {o \in ImportCfgs : ImportFits(cfg, o)} :
        \E vorder \in AllOrders(DOMAIN other.graph.vertices),
           eorder \in AllOrders(DOMAIN other.graph.edges) :
            /\ Running
            /\ Import("insert", other, insert(cfg, other, vorder, eorder))

NextImport == NewBlock \/ ImportAppend \/ ImportInsert

SpecImport == InitCfg /\ [][NextImport]_vars

---------------------------------------------------------------------------
(* def_use and use_def applied to every reaching-definitions map and every *)
(* resolution of the locations within the bounds                           *)

Variables == {"x"}
InstructionIds == 1..NumInstructionLocations
Locations ==
    {InstructionLocation(i) : i \in InstructionIds}
        \cup {EdgeLocation, EmptyBlockLocation}

\* what find() can return for an Instruction and for the Edge
InstructionViews ==
    {None} \cup {Some([read |-> r, written |-> w]) :
                    r \in SUBSET Variables,
                    w \in {None} \cup {Some(v) : v \in Variables}}
EdgeViews == {None, Some(None)} \cup {Some(Some(Variables))}
Envs == [instructions : [InstructionIds -> InstructionViews], edge : EdgeViews]

\* in_() holds Instruction locations and possibly the Edge location
ReachesSets ==
    {S \in SUBSET (Locations \ {EmptyBlockLocation}) : Cardinality(S) <= MaxReaching}
ReachingDefinitions == UNION {[K -> ReachesSets] : K \in SUBSET Locations}

InitDefUse ==
    /\ graph = new
    /\ last = [op |-> "new", res |-> "Ok"]
    /\ start = 0
    /\ analysis = NoAnalysis
    /\ cfg = ControlFlowGraph_new
    /\ \E rd \in ReachingDefinitions, env \in Envs :
          defuse = [rd |-> rd, env |-> env, du |-> <<>>, ud |-> <<>>]

DefUse ==
    /\ defuse.du = <<>>
    /\ defuse' = [defuse EXCEPT !.du = <<def_use(defuse.rd, defuse.env)>>]
    /\ UNCHANGED <<graph, last, start, analysis, cfg>>

UseDef ==
    /\ defuse.ud = <<>>
    /\ defuse' = [defuse EXCEPT !.ud = <<use_def(defuse.rd, defuse.env)>>]
    /\ UNCHANGED <<graph, last, start, analysis, cfg>>

NextDefUse == DefUse \/ UseDef

SpecDefUse == InitDefUse /\ [][NextDefUse]_vars

---------------------------------------------------------------------------
(* Graph invariants (spec section 3) *)

\* every edge stored anywhere in g
StoredEdges(g) ==
    {g.edges[k] : k \in DOMAIN g.edges}
    \cup UNION {{g.edges_out[i][n] : n \in 1..Len(g.edges_out[i])} : i \in DOMAIN g.edges_out}
    \cup UNION {{g.edges_in[i][n] : n \in 1..Len(g.edges_in[i])} : i \in DOMAIN g.edges_in}

EndpointsExist(g) ==
    \A e \in StoredEdges(g) : has_vertex(g, e.head) /\ has_vertex(g, e.tail)

\* number of elements of the sequence s that join h to t
Count(s, h, t) == Cardinality({n \in 1..Len(s) : s[n].head = h /\ s[n].tail = t})

AdjacencyAgrees(g) ==
    /\ \A k \in DOMAIN g.edges :
          /\ k[1] \in DOMAIN g.edges_out /\ Count(g.edges_out[k[1]], k[1], k[2]) = 1
          /\ k[2] \in DOMAIN g.edges_in /\ Count(g.edges_in[k[2]], k[1], k[2]) = 1
    /\ \A i \in DOMAIN g.edges_out : \A n \in 1..Len(g.edges_out[i]) :
          /\ g.edges_out[i][n].head = i
          /\ <<i, g.edges_out[i][n].tail>> \in DOMAIN g.edges
    /\ \A i \in DOMAIN g.edges_in : \A n \in 1..Len(g.edges_in[i]) :
          /\ g.edges_in[i][n].tail = i
          /\ <<g.edges_in[i][n].head, i>> \in DOMAIN g.edges

HeadValid(g) == g.head = None \/ has_vertex(g, g.head[1])

GraphInvariant(g) == EndpointsExist(g) /\ AdjacencyAgrees(g) /\ HeadValid(g)

\* C1: after any sequence of Graph operations that returned (insert_edge
\* being called with both endpoints present only), the head and the tail of
\* every edge stored in edges, edges_out or edges_in is a key of vertices.
C1_EdgeEndpointsAreVertices == Running => EndpointsExist(graph)

\* C2: after any sequence of Graph operations that returned, edges and the
\* adjacency maps agree: each key (h,t) of edges occurs exactly once in
\* edges_out[h] and exactly once in edges_in[t], and every edge of an
\* adjacency sequence is a key of edges.
C2_EdgeMapAgreesWithAdjacency == Running => AdjacencyAgrees(graph)

\* C3: on a graph satisfying the invariants, remove_vertex(i) of a present
\* vertex i returns Ok, and afterwards i is not a vertex, no stored edge has
\* head or tail i, and edges_out and edges_in have no entry for i.
C3_RemoveVertexPurges ==
    [][ \A i \in Indices :
        ( /\ GraphInvariant(graph)
          /\ has_vertex(graph, i)
          /\ last'.op = "remove_vertex"
          /\ graph' = remove_vertex(graph, i).g
          /\ last'.res = remove_vertex(graph, i).res )
        => ( /\ last'.res = "Ok"
             /\ ~ has_vertex(graph', i)
             /\ \A e \in StoredEdges(graph') : e.head # i /\ e.tail # i
             /\ i \notin DOMAIN graph'.edges_out
             /\ i \notin DOMAIN graph'.edges_in ) ]_vars

\* C4: after any sequence of Graph operations that returned, head is unset
\* or the index of a vertex that is in vertices.
C4_HeadIsVertex == Running => HeadValid(graph)

---------------------------------------------------------------------------
(* Dominance, from its definition (spec glossary) *)

\* the vertices that paths over the edges E reach from the set S
RECURSIVE Closure(_, _)
Closure(E, S) ==
    LET n == S \cup {e[2] : e \in {x \in E : x[1] \in S}}
    IN  IF n = S THEN S ELSE Closure(E, n)

Reachable(g, s) == Closure(DOMAIN g.edges, {s})

\* every path from s to v passes through d
Dominates(g, s, d, v) ==
    \/ d = v
    \/ d = s
    \/ v \notin Closure({e \in DOMAIN g.edges : e[1] # d /\ e[2] # d}, {s})

TrueDominators(g, s, v) == {d \in DOMAIN g.vertices : Dominates(g, s, d, v)}

\* the vertices on a directed cycle of the edges E
OnCycle(E) == {v \in {e[1] : e \in E} : v \in Closure(E, {e[2] : e \in {x \in E : x[1] = v}})}

Returned(kind) == analysis.kind = kind

\* C5: for every vertex v reachable from start, compute_dominators(start)[v]
\* is the set of the vertices d such that every path from start to v passes
\* through d.
C5_DominatorsAreExact ==
    Returned("compute_dominators") =>
        /\ analysis.res = "Ok"
        /\ \A v \in Reachable(graph, start) :
              /\ v \in DOMAIN analysis.val
              /\ analysis.val[v] = TrueDominators(graph, start, v)

\* C6: compute_dominators(start)[start] = {start}, and every vertex v
\* reachable from start has an entry that contains start and v.
C6_DominatorsContainStartAndSelf ==
    Returned("compute_dominators") =>
        /\ analysis.res = "Ok"
        /\ start \in DOMAIN analysis.val
        /\ analysis.val[start] = {start}
        /\ \A v \in Reachable(graph, start) :
              /\ v \in DOMAIN analysis.val
              /\ {start, v} \subseteq analysis.val[v]

\* compute_dominators has returned for a graph in which start lies on a
\* cycle and some other reachable vertex has two incoming edges
C6_Witness ==
    /\ Returned("compute_dominators")
    /\ start \in OnCycle(DOMAIN graph.edges)
    /\ \E v \in Reachable(graph, start) \ {start} : Len(graph.edges_in[v]) >= 2

\* the map compute_immediate_dominators works from
DominatorsOf(g, s) == compute_dominators(g, s, Ascending(DOMAIN g.vertices)).val

\* C7: compute_immediate_dominators(start) gives every vertex v reachable
\* from start and different from start exactly one immediate dominator d,
\* d # v, d in dominators[v], every other strict dominator of v being a
\* dominator of d; start has none.
C7_ImmediateDominators ==
    Returned("compute_immediate_dominators") =>
        /\ analysis.res = "Ok"
        /\ start \notin DOMAIN analysis.val
        /\ \A v \in Reachable(graph, start) \ {start} :
              /\ v \in DOMAIN analysis.val
              /\ analysis.val[v] # v
              /\ analysis.val[v] \in DominatorsOf(graph, start)[v]
              /\ \A d \in DominatorsOf(graph, start)[v] \ {v, analysis.val[v]} :
                    d \in DominatorsOf(graph, start)[analysis.val[v]]

\* the dominance frontier of v, from its definition
TrueFrontier(g, s, v) ==
    {w \in DOMAIN g.vertices :
        /\ \E p \in Heads(g.edges_in[w]) : Dominates(g, s, v, p)
        /\ ~ (v # w /\ Dominates(g, s, v, w))}

\* C8: when every vertex is reachable from start,
\* compute_dominance_frontiers(start)[v] is the set of the vertices w such
\* that v dominates an immediate predecessor of w and does not strictly
\* dominate w.
C8_FrontiersAreExact ==
    (Returned("compute_dominance_frontiers")
        /\ Reachable(graph, start) = DOMAIN graph.vertices) =>
        /\ analysis.res = "Ok"
        /\ \A v \in DOMAIN graph.vertices :
              /\ v \in DOMAIN analysis.val
              /\ analysis.val[v] = TrueFrontier(graph, start, v)

\* C9: compute_acyclic(start) returns a graph with the vertex indices of the
\* original, whose edges are edges of the original, and without a directed
\* cycle.
C9_AcyclicSubgraph ==
    Returned("compute_acyclic") =>
        /\ analysis.res = "Ok"
        /\ DOMAIN analysis.val.vertices = DOMAIN graph.vertices
        /\ DOMAIN analysis.val.edges \subseteq DOMAIN graph.edges
        /\ OnCycle(DOMAIN analysis.val.edges) = {}
        /\ AdjacencyAgrees(analysis.val)

\* compute_acyclic has returned for a graph with a cycle through at least
\* two vertices reachable from start, and has left an edge out
C9_Witness ==
    /\ Returned("compute_acyclic")
    /\ analysis.res = "Ok"
    /\ \E e \in DOMAIN graph.edges :
          /\ e[1] # e[2]
          /\ e[1] \in Reachable(graph, start)
          /\ e[1] \in OnCycle(DOMAIN graph.edges \ {<<e[1], e[1]>>, <<e[2], e[2]>>})
          /\ e \notin DOMAIN analysis.val.edges

---------------------------------------------------------------------------
(* ControlFlowGraph claims *)

\* every edge of the CFG joins two blocks of the CFG
EdgesJoinBlocks(c) ==
    \A k \in DOMAIN c.graph.edges : has_vertex(c.graph, k[1]) /\ has_vertex(c.graph, k[2])

\* C10: on a CFG whose edges all join existing blocks, merge() terminates
\* and returns Ok, and each contraction step decreases the number of blocks
\* by exactly one.
C10_MergeConverges ==
    [][ (last'.op = "merge" /\ EdgesJoinBlocks(cfg) /\ cfg' \in {r.cfg : r \in merge(cfg)})
        => ( /\ last'.res = "Ok"
             /\ \A n \in 1..(Len(last'.counts) - 1) :
                    last'.counts[n + 1] = last'.counts[n] - 1 ) ]_vars

\* the blocks of the CFG and the edges leaving / entering a block
Blocks(c) == DOMAIN c.graph.vertices
EdgesFrom(c, b) == {k \in DOMAIN c.graph.edges : k[1] = b}
EdgesInto(c, b) == {k \in DOMAIN c.graph.edges : k[2] = b}

\* a block with exactly one outgoing edge, unconditional, to a block with
\* exactly one incoming edge
MergeablePair(c, b) ==
    /\ Cardinality(EdgesFrom(c, b)) = 1
    /\ \A k \in EdgesFrom(c, b) :
          /\ c.graph.edges[k].condition = None
          /\ Cardinality(EdgesInto(c, k[2])) = 1

\* C11: merge is idempotent: after merge() has returned Ok, a second merge()
\* returns Ok and leaves blocks, their instructions, edges, entry, exit and
\* next_index unchanged, and no block with exactly one outgoing unconditional
\* edge to a block with exactly one incoming edge remains.
C11_MergeIdempotent ==
    (last.op = "merge" /\ last.res = "Ok")
    => /\ \A r \in merge(cfg) : r.res = "Ok" /\ r.cfg = cfg
       /\ \A b \in Blocks(cfg) : ~ MergeablePair(cfg, b)

\* a merge that contracted at least once has returned Ok, leaving blocks with
\* instructions and an edge behind
C11_Witness ==
    /\ last.op = "merge" /\ last.res = "Ok"
    /\ Len(last.counts) >= 2
    /\ DOMAIN cfg.graph.edges # {}
    /\ NumInstructions(cfg) >= 2

\* the orders in which the blocks of c form a chain b0 -> b1 -> ... joined by
\* unconditional edges, with no other edge
ChainOrders(c) ==
    {o \in AllOrders(Blocks(c)) :
        /\ DOMAIN c.graph.edges = {<<o[n], o[n + 1]>> : n \in 1..(Len(o) - 1)}
        /\ \A k \in DOMAIN c.graph.edges : c.graph.edges[k].condition = None}

RECURSIVE ChainInstructions(_, _)
ChainInstructions(c, o) ==
    IF o = <<>> THEN <<>>
    ELSE c.graph.vertices[Head(o)].instructions \o ChainInstructions(c, Tail(o))

---------------------------------------------------------------------------
(* Composition claims *)

EntryExitValid(c) ==
    /\ c.entry = None \/ has_vertex(c.graph, c.entry[1])
    /\ c.exit = None \/ has_vertex(c.graph, c.exit[1])

\* C13: after any sequence of CFG operations, entry and exit, when set, are
\* indices of blocks present in the graph; merge keeps them valid when it
\* deletes blocks.
C13_EntryExitAreBlocks == Running => EntryExitValid(cfg)

\* the edges of a ControlFlowGraph, and those of other under block_map
EdgeRecords(c) == {c.graph.edges[k] : k \in DOMAIN c.graph.edges}
Remapped(other, block_map) ==
    {Edge_new(block_map[e.head], block_map[e.tail], e.condition) :
        e \in EdgeRecords(other)}

\* the ControlFlowGraphs this machine can hand to append and insert in the
\* current state, and the orders in which their maps can present them
Fitting == {o \in OtherCfgs : Fits(cfg, o)}
OrdersOf(other) ==
    AllOrders(DOMAIN other.graph.vertices) \X AllOrders(DOMAIN other.graph.edges)

C16_FreshIndices ==
    [][ /\ cfg'.next_index >= cfg.next_index
        /\ \A b \in DOMAIN cfg'.graph.vertices : b < cfg'.next_index
        /\ \A b \in DOMAIN cfg'.graph.vertices \ DOMAIN cfg.graph.vertices :
              b >= cfg.next_index ]_vars

\* blocks were imported after a merge had deleted a block
C16_Witness ==
    /\ last.op \in {"append", "insert"} /\ last.res = "Ok"
    /\ \E i \in AllocatedIds(cfg) :
          /\ ~ has_vertex(cfg.graph, i)
          /\ \E b \in DOMAIN cfg.graph.vertices : b > i

---------------------------------------------------------------------------
(* def_use / use_def claims *)

\* L is in the map m returned for D; no map, no entry
Relates(r, D, L) ==
    /\ r.res = "Ok"
    /\ D \in DOMAIN r.val
    /\ L \in r.val[D]

\* C17: for the same reaching-definitions map and CFG, def_use and use_def
\* are inverse relations: for all locations D and L, L is in def_use[D] if and
\* only if D is in use_def[L].
C17_DefUseInvertsUseDef ==
    (defuse.du # <<>> /\ defuse.ud # <<>>)
    => \A D \in Locations, L \in Locations :
          Relates(defuse.du[1], D, L) <=> Relates(defuse.ud[1], L, D)

\* a location of the input does not resolve against the CFG
Unresolved(rd, env) ==
    {l \in DOMAIN rd \cup UNION {rd[k] : k \in DOMAIN rd} :
        \/ l.tag = "Instruction" /\ env.instructions[l.id] = None
        \/ l.tag = "Edge" /\ l \in DOMAIN rd /\ env.edge = None}

\* C18: when a location used by def_use or use_def (an Instruction key, an
\* Edge key, or a reaching definition D) cannot be resolved against the CFG,
\* the function returns an error value to its caller; it never aborts and
\* never returns a partial map as success.
C18_UnresolvedLocationIsAnError ==
    Unresolved(defuse.rd, defuse.env) # {}
    => /\ defuse.du # <<>> => defuse.du[1].res = "Err"
       /\ defuse.ud # <<>> => defuse.ud[1].res = "Err"

---------------------------------------------------------------------------
(* Edge insertion claims *)

\* C19: for every graph G and every pair (h,t) of existing vertices with no
\* edge h->t, insert_edge(h->t) followed by remove_edge(h,t) leaves G exactly
\* as before: same vertices, edges, head, and the same edges_out and edges_in
\* sequences in the same order.
C19_InsertThenRemoveRestores ==
    Running =>
    \A h \in DOMAIN graph.vertices, t \in DOMAIN graph.vertices :
        <<h, t>> \notin DOMAIN graph.edges =>
            LET inserted == insert_edge(graph, NullEdge(h, t))
                removed == remove_edge(inserted.g, h, t)
            IN  /\ inserted.res = "Ok"
                /\ removed.res = "Ok"
                /\ removed.g = graph

\* an edge has been removed from a graph in which two vertices that are not
\* joined both have other edges in their adjacency sequences
C19_Witness ==
    /\ last.op = "remove_edge" /\ last.res = "Ok"
    /\ \E h \in DOMAIN graph.vertices, t \in DOMAIN graph.vertices :
          /\ <<h, t>> \notin DOMAIN graph.edges
          /\ Len(graph.edges_out[h]) >= 1
          /\ Len(graph.edges_in[t]) >= 1

\* C20: inserting an edge whose (head, tail) pair is already present fails
\* with an error and leaves vertices, edges, edges_out, edges_in and head
\* unchanged, also when the new edge carries a different payload:
\* conditional_edge(h,t,c) over an existing edge h->t fails and the stored
\* edge keeps its previous condition.
C20_DuplicateEdgeRejected ==
    Running =>
    \A k \in DOMAIN cfg.graph.edges :
        /\ unconditional_edge(cfg, k[1], k[2]) = CfgResult(cfg, "Err")
        /\ \A condition \in Conditions :
              conditional_edge(cfg, k[1], k[2], condition) = CfgResult(cfg, "Err")
        /\ \A x \in OptionalConditions :
              insert_edge(cfg.graph, Edge_new(k[1], k[2], x)) = Err(cfg.graph)

\* conditional_edge has been refused over the only edge, an unconditional one
C20_Witness ==
    /\ last.op = "conditional_edge" /\ last.res = "Err"
    /\ Cardinality(DOMAIN cfg.graph.edges) = 1
    /\ \A k \in DOMAIN cfg.graph.edges : cfg.graph.edges[k].condition = None

---------------------------------------------------------------------------
(* Analysis claims *)

\* the vertices from which v is reached by a non-empty directed path
TransitivePredecessors(g, v) ==
    {u \in DOMAIN g.vertices :
        v \in Closure(DOMAIN g.edges,
                      {e[2] : e \in {x \in DOMAIN g.edges : x[1] = u}})}

\* C21: compute_predecessors()[v] is exactly the set of the vertices u from
\* which v is reachable by a non-empty directed path, for every vertex v; v
\* itself is included exactly when v lies on a cycle.
C21_PredecessorsAreTransitive ==
    Returned("compute_predecessors") =>
        /\ analysis.res = "Ok"
        /\ DOMAIN analysis.val = DOMAIN graph.vertices
        /\ \A v \in DOMAIN graph.vertices :
              /\ analysis.val[v] = TransitivePredecessors(graph, v)
              /\ v \in analysis.val[v] <=> v \in OnCycle(DOMAIN graph.edges)

\* compute_predecessors has returned for a graph in which one vertex lies on
\* a cycle and another, off every cycle, has a predecessor that is not an
\* immediate one
C21_Witness ==
    /\ Returned("compute_predecessors")
    /\ analysis.res = "Ok"
    /\ \E v \in DOMAIN graph.vertices : v \in analysis.val[v]
    /\ \E w \in DOMAIN graph.vertices :
          /\ w \notin analysis.val[w]
          /\ analysis.val[w] # Heads(graph.edges_in[w])

\* C22: for every graph and start in vertices, compute_dominators(start)
\* terminates: once its work queue loop is entered the queue eventually
\* drains and the call returns, on graphs with cycles, with a self-loop on
\* start and with vertices unreachable from start as well.
C22_DominatorsTerminate ==
    InLoop ~> (Returned("compute_dominators") /\ analysis.res = "Ok")

\* compute_dominators has returned for a graph with a self-loop on start, a
\* cycle through start and another vertex, and a vertex unreachable from start
C22_Witness ==
    /\ Returned("compute_dominators")
    /\ analysis.res = "Ok"
    /\ <<start, start>> \in DOMAIN graph.edges
    /\ start \in OnCycle(DOMAIN graph.edges \ {<<start, start>>})
    /\ Reachable(graph, start) # DOMAIN graph.vertices

\* C23: append(other) returns an error and leaves self unchanged when other
\* has no entry or no exit, in particular when other is an empty CFG, or when
\* self has at least one block but lacks entry or exit.
C23_AppendPreconditions ==
    Running =>
    \A other \in Fitting : \A o \in OrdersOf(other) :
        ( \/ other.entry = None \/ other.exit = None
          \/ /\ DOMAIN cfg.graph.vertices # {}
             /\ (cfg.entry = None \/ cfg.exit = None) )
        => append(cfg, other, o[1], o[2]) = Imported(cfg, "Err", <<>>)

\* an append to a ControlFlowGraph with blocks has been refused
C23_Witness ==
    /\ last.op = "append" /\ last.res = "Err"
    /\ DOMAIN cfg.graph.vertices # {}
    /\ cfg.entry = None

\* the vertices in the order in which a breadth-first search from the head
\* of queue expands them, successors taken in edges_out order
RECURSIVE BreadthFirst(_, _, _)
BreadthFirst(g, queue, expanded) ==
    IF queue = <<>> THEN expanded
    ELSE
    LET v == Head(queue)
        done == Append(expanded, v)
        fresh == SelectSeq(Tails(g.edges_out[v]),
                           LAMBDA w : ~ Contains(done, w) /\ ~ Contains(Tail(queue), w))
    IN  BreadthFirst(g, Tail(queue) \o fresh, done)

Position(o, v) == CHOOSE n \in 1..Len(o) : o[n] = v

\* h -> t is a back edge of the breadth-first search from s: h is expanded,
\* t is visited by then, and t is a transitive predecessor of h
BackEdge(g, s, h, t) ==
    LET o == BreadthFirst(g, <<s>>, <<>>)
    IN  /\ Contains(o, h)
        /\ Contains(o, t)
        /\ Position(o, t) <= Position(o, h)
        /\ t \in TransitivePredecessors(g, h)

\* C24 as stated: every edge h->t of the original graph that is absent from
\* compute_acyclic(start) is a back edge with respect to the BFS from start
\* (t had already been visited when h was expanded and t is a transitive
\* predecessor of h), and every other edge of the original graph is present
\* in the result.
C24_OmittedEdgesAreBackEdges ==
    Returned("compute_acyclic") =>
        /\ analysis.res = "Ok"
        /\ \A e \in DOMAIN graph.edges :
              e \notin DOMAIN analysis.val.edges <=> BackEdge(graph, start, e[1], e[2])

\* C24 amended: among the edges whose head is reachable from start, the ones
\* absent from compute_acyclic(start) are exactly the back edges of the BFS
\* from start; the edges whose head is not reachable from start are all
\* absent.
C24_OmittedAreBackOrUnreached ==
    Returned("compute_acyclic") =>
        /\ analysis.res = "Ok"
        /\ \A e \in DOMAIN graph.edges :
              IF e[1] \in Reachable(graph, start)
              THEN e \notin DOMAIN analysis.val.edges
                       <=> BackEdge(graph, start, e[1], e[2])
              ELSE e \notin DOMAIN analysis.val.edges

\* compute_acyclic has returned for a graph with a cycle through start and
\* another vertex, one edge of which it left out, and with an edge leaving a
\* vertex that start does not reach
C24_Witness ==
    /\ Returned("compute_acyclic")
    /\ analysis.res = "Ok"
    /\ \E e \in DOMAIN graph.edges :
          /\ e[1] # e[2]
          /\ e[1] \in Reachable(graph, start)
          /\ e \notin DOMAIN analysis.val.edges
    /\ \E e \in DOMAIN graph.edges : e[1] \notin Reachable(graph, start)

\* the graph after insert_edge has been called with the pairs, in order
RECURSIVE Built(_, _)
Built(g, pairs) ==
    IF pairs = <<>> THEN g
    ELSE Built(insert_edge(g, NullEdge(pairs[1][1], pairs[1][2])).g, Tail(pairs))

Diamond == Built(NullVertices(new, Ascending(DiamondVertices)), DiamondEdges)

\* C25: on the diamond graph with vertices 0,1,2,3 and edges 0->1, 0->2,
\* 1->3, 2->3 inserted in that order, compute_dominators(0) = {0:{0},
\* 1:{0,1}, 2:{0,2}, 3:{0,3}}, compute_immediate_dominators(0) = {1:0, 2:0,
\* 3:0} and compute_dominance_frontiers(0) = {0:{}, 1:{3}, 2:{3}, 3:{}}.
C25_Diamond ==
    (graph = Diamond /\ start = 0) =>
        /\ Returned("compute_dominators") =>
              /\ analysis.res = "Ok"
              /\ analysis.val = (0 :> {0} @@ 1 :> {0, 1} @@ 2 :> {0, 2} @@ 3 :> {0, 3})
        /\ Returned("compute_immediate_dominators") =>
              /\ analysis.res = "Ok"
              /\ analysis.val = (1 :> 0 @@ 2 :> 0 @@ 3 :> 0)
        /\ Returned("compute_dominance_frontiers") =>
              /\ analysis.res = "Ok"
              /\ analysis.val = (0 :> {} @@ 1 :> {3} @@ 2 :> {3} @@ 3 :> {})

\* compute_dominance_frontiers(0) has returned on the diamond
C25_Witness ==
    /\ graph = Diamond
    /\ start = 0
    /\ Returned("compute_dominance_frontiers")

---------------------------------------------------------------------------
(* Adjacency order *)

\* the sequence lists the edges of the set S, each once
Lists(seq, S) ==
    /\ Len(seq) = Cardinality(S)
    /\ {seq[n] : n \in 1..Len(seq)} = S

\* from one state to the next the elements of old that remain keep their
\* order and come before every element that is new
OrderKept(old, now) ==
    LET kept == SelectSeq(old, LAMBDA e : Contains(now, e))
    IN  /\ Len(kept) <= Len(now)
        /\ SubSeq(now, 1, Len(kept)) = kept
        /\ \A n \in (Len(kept) + 1)..Len(now) : ~ Contains(old, now[n])

\* the adjacency sequences of vertex i list the edges present in g, and
\* successors and predecessors follow them
AdjacencyLists(g, i) ==
    /\ Graph_edges_out(g, i).res = "Ok"
    /\ Lists(Graph_edges_out(g, i).val, {g.edges[k] : k \in {x \in DOMAIN g.edges : x[1] = i}})
    /\ Graph_edges_in(g, i).res = "Ok"
    /\ Lists(Graph_edges_in(g, i).val, {g.edges[k] : k \in {x \in DOMAIN g.edges : x[2] = i}})
    /\ Graph_successors(g, i).res = "Ok"
    /\ Len(Graph_successors(g, i).val) = Len(Graph_edges_out(g, i).val)
    /\ \A n \in 1..Len(Graph_successors(g, i).val) :
          Graph_successors(g, i).val[n].index = Graph_edges_out(g, i).val[n].tail
    /\ Graph_predecessors(g, i).res = "Ok"
    /\ Len(Graph_predecessors(g, i).val) = Len(Graph_edges_in(g, i).val)
    /\ \A n \in 1..Len(Graph_predecessors(g, i).val) :
          Graph_predecessors(g, i).val[n].index = Graph_edges_in(g, i).val[n].head

\* the sequences of vertex i, which stays in the graph, keep their order
AdjacencyOrderKept(i) ==
    (i \in DOMAIN graph.vertices /\ i \in DOMAIN graph.edges_out
        /\ i \in DOMAIN graph.edges_in) =>
        /\ Graph_edges_out(graph', i).res = "Ok"
        /\ OrderKept(graph.edges_out[i], Graph_edges_out(graph', i).val)
        /\ Graph_edges_in(graph', i).res = "Ok"
        /\ OrderKept(graph.edges_in[i], Graph_edges_in(graph', i).val)

\* C26: for every vertex i, Graph_edges_out(i) and Graph_edges_in(i), and hence
\* Graph_successors(i) and Graph_predecessors(i), list the currently present edges in
\* the order in which they were inserted: after every operation the
\* sequences list the present edges, a new edge comes last, and the edges
\* that remain after the removal of an edge or of another vertex keep their
\* order.
C26_AdjacencyInInsertionOrder ==
    [][Running' =>
          \A i \in DOMAIN graph'.vertices :
              AdjacencyLists(graph', i) /\ AdjacencyOrderKept(i)]_vars

---------------------------------------------------------------------------
(* def_use / use_def coverage *)

\* the variables read at location L: the scalars of an edge's condition, the
\* variables an instruction reads, nothing at an empty block
ReadAt(env, L) ==
    IF L.tag = "Edge"
    THEN IF env.edge = None \/ env.edge[1] = None THEN {} ELSE env.edge[1][1]
    ELSE IF L.tag = "Instruction"
    THEN IF env.instructions[L.id] = None THEN {} ELSE env.instructions[L.id][1].read
    ELSE {}

\* the definition at D reaches L and the variable it writes is read at L
UsedAt(rd, env, D, L) ==
    /\ L \in DOMAIN rd
    /\ D \in rd[L]
    /\ D.tag = "Instruction"
    /\ env.instructions[D.id] # None
    /\ env.instructions[D.id][1].written # None
    /\ env.instructions[D.id][1].written[1] \in ReadAt(env, L)

\* C27: whenever def_use or use_def returns a map, its key set equals the
\* key set of the reaching-definitions map: every location of the input has
\* an entry, which holds what applies to it and is empty when nothing does,
\* and no other key appears.
C27_KeySetsAreEqual ==
    /\ (defuse.du # <<>> /\ defuse.du[1].res = "Ok") =>
          /\ DOMAIN defuse.du[1].val = DOMAIN defuse.rd
          /\ \A D \in DOMAIN defuse.rd :
                defuse.du[1].val[D] =
                    {L \in Locations : UsedAt(defuse.rd, defuse.env, D, L)}
    /\ (defuse.ud # <<>> /\ defuse.ud[1].res = "Ok") =>
          /\ DOMAIN defuse.ud[1].val = DOMAIN defuse.rd
          /\ \A L \in DOMAIN defuse.rd :
                defuse.ud[1].val[L] =
                    {D \in Locations : UsedAt(defuse.rd, defuse.env, D, L)}

\* def_use and use_def have returned maps in which one entry is not empty
\* and another is
C27_Witness ==
    /\ defuse.du # <<>> /\ defuse.du[1].res = "Ok"
    /\ defuse.ud # <<>> /\ defuse.ud[1].res = "Ok"
    /\ \E k \in DOMAIN defuse.rd : defuse.du[1].val[k] # {} /\ defuse.ud[1].val[k] # {}
    /\ \E k \in DOMAIN defuse.rd : defuse.du[1].val[k] = {} /\ defuse.ud[1].val[k] = {}

---------------------------------------------------------------------------
(* Unreachable vertices *)

\* C28: for every graph with start in vertices, including graphs that
\* contain vertices unreachable from start, compute_immediate_dominators and
\* compute_dominance_frontiers return a result instead of aborting, and the
\* frontier map has an entry (possibly empty) for every vertex of the graph.
C28_AnalysesReturnWithUnreachable ==
    /\ Returned("compute_immediate_dominators") => analysis.res = "Ok"
    /\ Returned("compute_dominance_frontiers") =>
          /\ analysis.res = "Ok"
          /\ DOMAIN analysis.val = DOMAIN graph.vertices

---------------------------------------------------------------------------
(* The contraction step of merge *)

\* what one contraction of the pair (b, s) has to make of c: block s and the
\* edge b -> s are gone, every edge s -> t has become b -> t with its
\* condition, and the other blocks and edges are as they were
Contracted(c, b, s, r) ==
    LET moved == {k \in DOMAIN c.graph.edges : k[1] = s}
        kept == {k \in DOMAIN c.graph.edges : k[1] # s /\ k[2] # s}
    IN  /\ r.res = "Ok"
        /\ DOMAIN r.cfg.graph.vertices = DOMAIN c.graph.vertices \ {s}
        /\ <<b, s>> \notin DOMAIN r.cfg.graph.edges
        /\ DOMAIN r.cfg.graph.edges = kept \cup {<<b, k[2]>> : k \in moved}
        /\ \A k \in moved :
              r.cfg.graph.edges[<<b, k[2]>>] =
                  Edge_new(b, k[2], c.graph.edges[k].condition)
        /\ \A k \in kept : r.cfg.graph.edges[k] = c.graph.edges[k]
        /\ \A v \in DOMAIN c.graph.vertices \ {b, s} :
              r.cfg.graph.vertices[v] = c.graph.vertices[v]

\* C29: each contraction step of merge on a pair (B, S) removes the edge
\* B -> S and block S, gives B one edge B -> T for each former edge S -> T
\* with the same condition, and leaves every other block's instructions and
\* every other edge unchanged.
C29_ContractionStep ==
    (Running /\ EdgesJoinBlocks(cfg)) =>
    \A b \in MergeCandidates(cfg) :
        Contracted(cfg, b, cfg.graph.edges_out[b][1].tail,
                   Contract(cfg, b, cfg.graph.edges_out[b][1].tail))

\* the instructions of the blocks S of c, one block after the other
RECURSIVE AllInstructions(_, _)
AllInstructions(c, S) ==
    IF S = {} THEN <<>>
    ELSE LET b == CHOOSE x \in S : \A y \in S : x <= y
         IN  c.graph.vertices[b].instructions \o AllInstructions(c, S \ {b})

Occurrences(seq, x) == Cardinality({n \in 1..Len(seq) : seq[n] = x})

\* c and d hold the same multiset of instructions
SameInstructions(c, d) ==
    LET before == AllInstructions(c, DOMAIN c.graph.vertices)
        after == AllInstructions(d, DOMAIN d.graph.vertices)
    IN  \A x \in {before[n] : n \in 1..Len(before)} \cup {after[n] : n \in 1..Len(after)} :
            Occurrences(before, x) = Occurrences(after, x)

\* C30: merge neither loses nor duplicates instructions: whether merge()
\* returns Ok or an error, the multiset of instructions summed over all
\* blocks of the CFG afterwards equals the multiset before the call.
C30_MergeKeepsInstructions ==
    [][(last'.op = "merge" /\ last'.res # "Panic" /\ EdgesJoinBlocks(cfg))
          => SameInstructions(cfg, cfg')]_vars

---------------------------------------------------------------------------
(* The import of append and insert *)

\* block_map is one-to-one from the blocks of other onto the blocks r has
\* and c had not
Bijection(c, other, block_map, r) ==
    LET added == DOMAIN r.graph.vertices \ DOMAIN c.graph.vertices
    IN  /\ DOMAIN block_map = DOMAIN other.graph.vertices
        /\ \A a, b \in DOMAIN block_map : block_map[a] = block_map[b] => a = b
        /\ {block_map[b] : b \in DOMAIN block_map} = added
        /\ Cardinality(added) = Cardinality(DOMAIN other.graph.vertices)

\* r has what c had, as it was
Kept(c, r) ==
    /\ \A b \in DOMAIN c.graph.vertices :
          b \in DOMAIN r.graph.vertices /\ r.graph.vertices[b] = c.graph.vertices[b]
    /\ \A k \in DOMAIN c.graph.edges :
          k \in DOMAIN r.graph.edges /\ r.graph.edges[k] = c.graph.edges[k]

\* C31: after a successful append(other) or insert(other), the block map is a
\* bijection from other's blocks onto |other| newly added blocks of self,
\* self contains an edge map[h]->map[t] with the same condition for every
\* edge h->t of other, and every block and edge that self had before the
\* call is unchanged.
C31_ImportIsBijective ==
    [][(last'.op \in {"append", "insert"} /\ last'.res = "Ok") =>
          /\ Bijection(cfg, last'.other, last'.map, cfg')
          /\ Remapped(last'.other, last'.map) \subseteq EdgeRecords(cfg')
          /\ Kept(cfg, cfg')]_vars

\* two blocks joined by an edge have been imported into a ControlFlowGraph
\* that had a block and an edge of its own
C31_Witness ==
    /\ last.op \in {"append", "insert"} /\ last.res = "Ok"
    /\ Cardinality(DOMAIN last.map) = 2
    /\ \E e \in EdgeRecords(last.other) : e.head # e.tail
    /\ \E b \in DOMAIN cfg.graph.vertices : \A a \in DOMAIN last.map : last.map[a] # b
    /\ \E e \in EdgeRecords(cfg) : \A a \in DOMAIN last.map : last.map[a] # e.head

=============================================================================
